---- MODULE Spec2Model ----
(***************************************************************************)
(* DualAgent: the worker's retry controller (agent_core.main) with its     *)
(* telemetry analysis, and the social agent's advice stage                 *)
(* (agent_social.main).                                                    *)
(*                                                                         *)
(* Texts are modelled by what the code reads off them:                     *)
(*  - a history step's lowercased text s_low is the set of the keywords    *)
(*    it contains ("click" in s_low is  "click" \in step.s_low);           *)
(*  - an exception message is the set of the phrases its lowercased text   *)
(*    contains;                                                            *)
(*  - a result text is a sequence of tokens: " " (whitespace), "x"         *)
(*    (visible text), "pw" (the value of a secret environment variable).   *)
(* write_text is taken to succeed (the working directory is writable), and  *)
(* MAX_RUN_RETRIES and RETRY_BACKOFF_SECONDS are taken to be set to         *)
(* non-negative numbers.                                                   *)
(***************************************************************************)
EXTENDS Integers, Sequences, FiniteSets, TLC

VARIABLES
    MAX_RUN_RETRIES,        \* agent_core.py:21, read from the environment
    RETRY_BACKOFF_SECONDS,  \* agent_core.py:22, read from the environment
    pc,                     \* position of main: pending, running, retrying, success, failed
    attempt,                \* the loop variable of main (0 before the first iteration)
    last_err,               \* main's last_err
    outcome,                \* the branch the latest attempt ended in
    history,                \* main's history (steps of the latest returned run)
    stats,                  \* main's stats
    result,                 \* main's result
    summary,                \* content of run_summary.txt
    exported,               \* main's exported
    subject,                \* subject of the latest send_mail call
    fail_body,              \* the "Last error" part of the failure email's body
    fail_mail,              \* the failure email: none, sent, or raised (swallowed)
    mail_error,             \* whether mail_error.txt has been written
    send_mail_calls,        \* number of send_mail calls of this run
    fail_mail_calls,        \* number of send_mail("Worker FAILED") calls of this run
    returned,               \* number of attempts whose run_once returned a history
    slept,                  \* the time.sleep durations of this run, in order
    exit_status,            \* -1 while running, 0 after return, 1 after SystemExit(1)
    USE_GROQ,               \* agent_social.py:6
    worker_log,             \* content of the worker log file read by agent_social
    clock,                  \* wall clock of the social stage, in ticks
    advice_md,              \* content of advice.md
    advice_runs             \* the advice texts written by the social runs so far

coreVars == <<MAX_RUN_RETRIES, RETRY_BACKOFF_SECONDS, pc, attempt, last_err, outcome,
              history, stats, result, summary, exported, subject, fail_body,
              fail_mail, mail_error, send_mail_calls, fail_mail_calls, returned, slept,
              exit_status>>

socialVars == <<USE_GROQ, worker_log, clock, advice_md, advice_runs>>

vars == <<coreVars, socialVars>>

(***************************************************************************)
(* Bounds of the model                                                     *)
(***************************************************************************)
MaxRetriesBound == 3       \* MAX_RUN_RETRIES ranges over 0..MaxRetriesBound
MaxSteps == 2              \* steps in one history
MaxLogLines == 2           \* lines of the worker log
MaxClock == 3              \* ticks the social stage's clock runs through
MaxSocialRuns == 2         \* runs of the social stage on one worker log
TicksPerMinute == 2        \* clock ticks in one minute

\* Defaults of the environment variables
DefaultMaxRunRetries == 3
DefaultRetryBackoffSeconds == 4

\* The settings of RETRY_BACKOFF_SECONDS the model runs with
BackoffSamples == {0, DefaultRetryBackoffSeconds}

Min(a, b) == IF a <= b THEN a ELSE b

(***************************************************************************)
(* agent_core: telemetry                                                   *)
(***************************************************************************)
\* Steps of a browser-use history: the keywords the lowercased step text
\* contains, and whether step.error is truthy.
StepSamples ==
    { [s_low |-> {"click", "navigate"}, error |-> FALSE],
      [s_low |-> {"type", "fill", "logged in successfully"}, error |-> FALSE],
      [s_low |-> {"wait"}, error |-> TRUE] }

Histories == UNION { [1..n -> StepSamples] : n \in 0..MaxSteps }

\* The stats dict analyze_history starts from.
InitStats ==
    [clicks |-> 0, types |-> 0, navigates |-> 0, waits |-> 0, errors |-> 0,
     login_success_claimed |-> FALSE]

B2N(b) == IF b THEN 1 ELSE 0

\* One iteration of analyze_history's loop.
AnalyzeStep(st, step) ==
    [clicks    |-> st.clicks + B2N("click" \in step.s_low),
     types     |-> st.types + B2N("type" \in step.s_low \/ "fill" \in step.s_low),
     navigates |-> st.navigates + B2N("navigate" \in step.s_low),
     waits     |-> st.waits + B2N("wait" \in step.s_low),
     errors    |-> st.errors + B2N(step.error),
     login_success_claimed |->
         \/ st.login_success_claimed
         \/ "logged in successfully" \in step.s_low
         \/ "eingeloggt" \in step.s_low
         \/ "logout" \in step.s_low]

RECURSIVE AnalyzeFrom(_, _)
AnalyzeFrom(st, h) ==
    IF h = <<>> THEN st ELSE AnalyzeFrom(AnalyzeStep(st, Head(h)), Tail(h))

\* A variant that goes on counting in the stats of the previous call.
analyze_history_leak(h) == AnalyzeFrom(stats, h)

analyze_history(h) == AnalyzeFrom(InitStats, h)

(***************************************************************************)
(* agent_core: result text                                                 *)
(***************************************************************************)
ResultTexts ==
    { <<" ">>, <<" ", "x", "pw", " ">> }

\* What history.final_result() does: returns None, raises, or returns a text.
FinalResults ==
    { [kind |-> "none", text |-> <<>>], [kind |-> "raises", text |-> <<>>] }
    \cup { [kind |-> "text", text |-> t] : t \in ResultTexts }

\* result = history.final_result() or "", "" when it raises.
ResultOf(fr) == IF fr.kind = "text" THEN fr.text ELSE <<>>

RECURSIVE LStrip(_)
LStrip(t) == IF t # <<>> /\ Head(t) = " " THEN LStrip(Tail(t)) ELSE t

RECURSIVE RStrip(_)
RStrip(t) ==
    IF t # <<>> /\ t[Len(t)] = " " THEN RStrip(SubSeq(t, 1, Len(t) - 1)) ELSE t

\* str.strip()
Strip(t) == RStrip(LStrip(t))

redact_secrets(t) == [i \in DOMAIN t |-> IF t[i] = "pw" THEN "***" ELSE t[i]]

(***************************************************************************)
(* agent_core: errors                                                      *)
(***************************************************************************)
NoErr == [kind |-> "None", attempt |-> 0, msg |-> {}]

\* A variant of the no-op branch that leaves last_err as it was.
NoActionsErrNotSet == last_err

\* RuntimeError("No actions produced (0 clicks/types). Retrying.")
NoActionsErr == [kind |-> "NoActions", attempt |-> 0, msg |-> {}]

TimeoutErr(a) == [kind |-> "Timeout", attempt |-> a, msg |-> {}]

ExceptionErr(m) == [kind |-> "Exception", attempt |-> 0, msg |-> m]

FlakePhrases ==
    { "browser not connected", "websocket connection closed",
      "session is corrupted", "cdp", "disconnected" }

\* Messages of the exceptions run_once raises: the phrases str(e).lower() contains.
ExceptionMsgs ==
    { {"element not found"}, {"cdp"}, {"rate limit", "session is corrupted"} }

infra_flake(msg) == \E x \in FlakePhrases : x \in msg

(***************************************************************************)
(* agent_core: main                                                        *)
(***************************************************************************)
NoSubject == [kind |-> "none", clicks |-> 0, types |-> 0, err |-> 0, export_auth |-> FALSE]

\* A variant that reports the clicks in the err field.
ReportSubjectErrIsClicks(st, exp) ==
    [kind |-> "Worker", clicks |-> st.clicks, types |-> st.types, err |-> st.clicks,
     export_auth |-> exp]

\* f"Worker: clicks=... types=... err=... export_auth=..."
ReportSubject(st, exp) ==
    [kind |-> "Worker", clicks |-> st.clicks, types |-> st.types, err |-> st.errors,
     export_auth |-> exp]

FailedSubject ==
    [kind |-> "Worker FAILED", clicks |-> 0, types |-> 0, err |-> 0, export_auth |-> FALSE]

NoSummary == [attempt |-> 0, stats |-> InitStats, result |-> <<>>]

\* for attempt in range(1, MAX_RUN_RETRIES + 1): whether another iteration follows
HasNextAttemptOffByOne(a) == a <= MAX_RUN_RETRIES

HasNextAttempt(a) == a < MAX_RUN_RETRIES

\* if stats["clicks"] > 0 or stats["types"] > 0 or result.strip()
StopsRunUnstripped(st, res) == st.clicks > 0 \/ st.types > 0 \/ res # <<>>

StopsRun(st, res) == st.clicks > 0 \/ st.types > 0 \/ Strip(res) # <<>>

\* if stats["login_success_claimed"] or stats["types"] >= 2
TriesExport(st) == st.login_success_claimed \/ st.types >= 2

\* RETRY_BACKOFF_SECONDS * attempt
Backoff(a) == RETRY_BACKOFF_SECONDS * a

\* if attempt < MAX_RUN_RETRIES and infra_flake
RetriesExceptionAlways(a, msg) == a < MAX_RUN_RETRIES

RetriesException(a, msg) == a < MAX_RUN_RETRIES /\ infra_flake(msg)

socialUnchanged == UNCHANGED socialVars

\* The state of main before its loop, with the configuration drawn from the
\* given sets.
CoreInit(retries, backoffs) ==
    /\ MAX_RUN_RETRIES \in retries
    /\ RETRY_BACKOFF_SECONDS \in backoffs
    /\ pc = "pending"
    /\ attempt = 0
    /\ last_err = NoErr
    /\ outcome = "none"
    /\ history = <<>>
    /\ stats = InitStats
    /\ result = <<>>
    /\ summary = NoSummary
    /\ exported = FALSE
    /\ subject = NoSubject
    /\ fail_body = NoErr
    /\ fail_mail = "none"
    /\ mail_error = FALSE
    /\ send_mail_calls = 0
    /\ fail_mail_calls = 0
    /\ returned = 0
    /\ slept = <<>>
    /\ exit_status = -1

\* The social stage before any run, on the worker logs and settings given.
SocialInit(groq, logs) ==
    /\ USE_GROQ \in groq
    /\ worker_log \in logs
    /\ clock = 0
    /\ advice_md = <<>>
    /\ advice_runs = <<>>

Init ==
    /\ CoreInit(0..MaxRetriesBound, BackoffSamples)
    /\ SocialInit({FALSE}, {<<>>})

\* A variant that sends the failure email only when an error was recorded.
HardFailOnlyWithError(err, mail_ok) ==
    /\ subject' = IF err = NoErr THEN subject ELSE FailedSubject
    /\ fail_body' = err
    /\ fail_mail' = IF err = NoErr THEN "none" ELSE IF mail_ok THEN "sent" ELSE "raised"
    /\ send_mail_calls' = send_mail_calls + (IF err = NoErr THEN 0 ELSE 1)
    /\ fail_mail_calls' = fail_mail_calls + (IF err = NoErr THEN 0 ELSE 1)
    /\ pc' = "failed"
    /\ exit_status' = 1

\* Lines 323-331: the failure email (an exception of send_mail is swallowed) and
\* SystemExit(1). err is the value of last_err when the loop is left.
HardFail(err, mail_ok) ==
    /\ subject' = FailedSubject
    /\ fail_body' = err
    /\ fail_mail' = IF mail_ok THEN "sent" ELSE "raised"
    /\ send_mail_calls' = send_mail_calls + 1
    /\ fail_mail_calls' = fail_mail_calls + 1
    /\ pc' = "failed"
    /\ exit_status' = 1

\* A variant in which a successful attempt does not leave the loop.
LoopPositionsNoReturn == {"pending", "retrying", "success"}

\* Where main is at the head of the for loop: at its start, or after the
\* time.sleep that ends an iteration.
LoopPositions == {"pending", "retrying"}

\* The for loop takes its next iteration.
StartAttempt ==
    /\ pc \in LoopPositions
    /\ HasNextAttempt(attempt)
    /\ attempt' = attempt + 1
    /\ pc' = "running"
    /\ UNCHANGED <<MAX_RUN_RETRIES, RETRY_BACKOFF_SECONDS, last_err, outcome, history,
                   stats, result, summary, exported, subject, fail_body, fail_mail,
                   mail_error, send_mail_calls, fail_mail_calls, returned, slept,
                   exit_status>>
    /\ socialUnchanged

\* The range is exhausted: the loop ends and main fails hard.
Exhausted(mail_ok) ==
    /\ pc \in LoopPositions
    /\ ~HasNextAttempt(attempt)
    /\ HardFail(last_err, mail_ok)
    /\ UNCHANGED <<MAX_RUN_RETRIES, RETRY_BACKOFF_SECONDS, attempt, last_err, outcome,
                   history, stats, result, summary, exported, mail_error, returned,
                   slept>>
    /\ socialUnchanged

\* A variant of RunReturns in which an exception of the report's send_mail is
\* not caught at line 286 but reaches the handler of line 302, which breaks
\* out of the loop.
RunReturnsMailRaises(h, fr, export_ok, mail_ok) ==
    /\ pc = "running"
    /\ \E st \in {analyze_history(h)} :
       LET res == ResultOf(fr)
           exp == TriesExport(st) /\ export_ok
       IN /\ export_ok => TriesExport(st)
          /\ history' = h
          /\ stats' = st
          /\ result' = res
          /\ summary' = [attempt |-> attempt, stats |-> st, result |-> redact_secrets(res)]
          /\ exported' = exp
          /\ returned' = returned + 1
          /\ UNCHANGED mail_error
          /\ IF ~mail_ok
             THEN /\ last_err' = ExceptionErr({"smtp"})
                  /\ outcome' = "error"
                  /\ subject' = FailedSubject
                  /\ fail_body' = ExceptionErr({"smtp"})
                  /\ fail_mail' = "raised"
                  /\ send_mail_calls' = send_mail_calls + 2
                  /\ fail_mail_calls' = fail_mail_calls + 1
                  /\ pc' = "failed"
                  /\ exit_status' = 1
                  /\ UNCHANGED slept
             ELSE /\ subject' = ReportSubject(st, exp)
                  /\ send_mail_calls' = send_mail_calls + 1
                  /\ UNCHANGED <<fail_body, fail_mail, fail_mail_calls>>
                  /\ IF StopsRun(st, res)
                     THEN /\ pc' = "success"
                          /\ outcome' = "success"
                          /\ exit_status' = 0
                          /\ UNCHANGED <<last_err, slept>>
                     ELSE /\ last_err' = NoActionsErr
                          /\ outcome' = "noop"
                          /\ slept' = Append(slept, Backoff(attempt))
                          /\ pc' = "retrying"
                          /\ UNCHANGED exit_status
    /\ UNCHANGED <<MAX_RUN_RETRIES, RETRY_BACKOFF_SECONDS, attempt>>
    /\ socialUnchanged

\* run_once returns history h within the timeout (lines 245-296).
\* fr is what history.final_result() does, export_ok what try_export_auth_state
\* returns (it is called only when TriesExport), mail_ok whether send_mail
\* returns rather than raises.
RunReturns(h, fr, export_ok, mail_ok) ==
    /\ pc = "running"
    /\ \E st \in {analyze_history(h)} :
       LET res == ResultOf(fr)
           exp == TriesExport(st) /\ export_ok
       IN /\ export_ok => TriesExport(st)
          /\ history' = h
          /\ stats' = st
          /\ result' = res
          /\ summary' = [attempt |-> attempt, stats |-> st, result |-> redact_secrets(res)]
          /\ exported' = exp
          /\ subject' = ReportSubject(st, exp)
          /\ send_mail_calls' = send_mail_calls + 1
          /\ mail_error' = (mail_error \/ ~mail_ok)
          /\ returned' = returned + 1
          /\ IF StopsRun(st, res)
             THEN /\ pc' = "success"
                  /\ outcome' = "success"
                  /\ exit_status' = 0
                  /\ UNCHANGED <<last_err, slept>>
             ELSE /\ last_err' = NoActionsErr
                  /\ outcome' = "noop"
                  /\ slept' = Append(slept, Backoff(attempt))
                  /\ pc' = "retrying"
                  /\ UNCHANGED exit_status
    /\ UNCHANGED <<MAX_RUN_RETRIES, RETRY_BACKOFF_SECONDS, attempt, fail_body, fail_mail,
                   fail_mail_calls>>
    /\ socialUnchanged

\* asyncio.wait_for raises TimeoutError (lines 298-301).
RunTimesOut ==
    /\ pc = "running"
    /\ last_err' = TimeoutErr(attempt)
    /\ outcome' = "timeout"
    /\ slept' = Append(slept, Backoff(attempt))
    /\ pc' = "retrying"
    /\ UNCHANGED <<MAX_RUN_RETRIES, RETRY_BACKOFF_SECONDS, attempt, history, stats,
                   result, summary, exported, subject, fail_body, fail_mail, mail_error,
                   send_mail_calls, fail_mail_calls, returned, exit_status>>
    /\ socialUnchanged

\* run_once raises another exception with message msg (lines 302-321); mail_ok
\* is whether the failure email's send_mail returns, when it is reached.
RunRaises(msg, mail_ok) ==
    /\ pc = "running"
    /\ last_err' = ExceptionErr(msg)
    /\ IF RetriesException(attempt, msg)
       THEN /\ outcome' = "flake"
            /\ slept' = Append(slept, Backoff(attempt))
            /\ pc' = "retrying"
            /\ UNCHANGED <<subject, fail_body, fail_mail, send_mail_calls,
                           fail_mail_calls, exit_status>>
       ELSE /\ outcome' = "error"
            /\ HardFail(ExceptionErr(msg), mail_ok)
            /\ UNCHANGED slept
    /\ UNCHANGED <<MAX_RUN_RETRIES, RETRY_BACKOFF_SECONDS, attempt, history, stats,
                   result, summary, exported, mail_error, returned>>
    /\ socialUnchanged

Next ==
    \/ StartAttempt
    \/ \E mail_ok \in BOOLEAN : Exhausted(mail_ok)
    \/ \E h \in Histories, fr \in FinalResults, export_ok \in BOOLEAN, mail_ok \in BOOLEAN :
          RunReturns(h, fr, export_ok, mail_ok)
    \/ RunTimesOut
    \/ \E msg \in ExceptionMsgs, mail_ok \in BOOLEAN : RunRaises(msg, mail_ok)

Spec == Init /\ [][Next]_vars

\* main is one sequential coroutine: a time.sleep ends and the loop goes on to
\* its next iteration or to the hard failure, and asyncio.wait_for ends an
\* attempt that has not finished by RUN_TIMEOUT_SECONDS.
FairSpec ==
    /\ Spec
    /\ WF_vars(StartAttempt)
    /\ WF_vars(\E mail_ok \in BOOLEAN : Exhausted(mail_ok))
    /\ WF_vars(RunTimesOut)

(***************************************************************************)
(* agent_social: the advice stage                                          *)
(*                                                                         *)
(* A log line is modelled by what the regular expressions of               *)
(* extract_signals find in it: the numbers of matches of \bclick\b,        *)
(* \btype\b, \bwait\b, \bnavigate\b (ignoring case) and of                 *)
(* \b(ERROR|Exception|Traceback)\b, whether the login and the disconnect   *)
(* expressions match, and the text each of the five key-error patterns     *)
(* matches in it ("" for no match).                                        *)
(***************************************************************************)
LogLineSamples ==
    { [text |-> "INFO Click on button, then wait",
       click |-> 1, type |-> 0, wait |-> 1, navigate |-> 0, err |-> 0,
       login |-> FALSE, disconnect |-> FALSE,
       pats |-> <<"", "", "", "", "">>],
      [text |-> "ERROR Cannot navigate - browser not connected",
       click |-> 0, type |-> 0, wait |-> 0, navigate |-> 1, err |-> 1,
       login |-> FALSE, disconnect |-> TRUE,
       pats |-> <<"Cannot navigate - browser not connected", "", "", "", "">>],
      [text |-> "Logged in successfully, type query",
       click |-> 0, type |-> 1, wait |-> 0, navigate |-> 0, err |-> 0,
       login |-> TRUE, disconnect |-> FALSE,
       pats |-> <<"", "", "", "", "">>],
      [text |-> "Traceback: WebSocket connection closed, CDP send failed",
       click |-> 0, type |-> 0, wait |-> 0, navigate |-> 0, err |-> 1,
       login |-> FALSE, disconnect |-> TRUE,
       pats |-> <<"", "WebSocket connection closed", "", "", "CDP send failed">>] }

WorkerLogs == UNION { [1..n -> LogLineSamples] : n \in 0..MaxLogLines }

\* The responses of the Groq model
LlmResponses == { "advice.md ... social_post.md ...", " other text " }

NumKeyErrorPatterns == 5

MaxKeyErrors == 6

TailLines == 80

RECURSIVE SumOver(_, _)
\* len(re.findall(...)) over the whole log: the matches of all its lines
SumOver(log, field) ==
    IF log = <<>> THEN 0
    ELSE (CASE field = "click" -> Head(log).click
            [] field = "type" -> Head(log).type
            [] field = "wait" -> Head(log).wait
            [] field = "navigate" -> Head(log).navigate
            [] field = "err" -> Head(log).err)
         + SumOver(Tail(log), field)

RECURSIVE FirstMatch(_, _)
\* re.search(pat, worker_log).group(0): the match in the first line that has one
FirstMatch(log, k) ==
    IF log = <<>> THEN ""
    ELSE IF Head(log).pats[k] # "" THEN Head(log).pats[k]
    ELSE FirstMatch(Tail(log), k)

RECURSIVE Dedupe(_)
\* list(dict.fromkeys(xs)): the first occurrence of each element, in order
Dedupe(xs) ==
    IF xs = <<>> THEN <<>>
    ELSE LET init == Dedupe(SubSeq(xs, 1, Len(xs) - 1))
             last == xs[Len(xs)]
         IN IF \E i \in DOMAIN init : init[i] = last THEN init ELSE Append(init, last)

RECURSIVE PatternHits(_, _)
\* the loop over the key-error patterns, patterns k..5
PatternHits(log, k) ==
    IF k > NumKeyErrorPatterns THEN <<>>
    ELSE (IF FirstMatch(log, k) # "" THEN <<FirstMatch(log, k)>> ELSE <<>>)
         \o PatternHits(log, k + 1)

NoSignals ==
    [clicks |-> 0, types |-> 0, waits |-> 0, navigates |-> 0, errors |-> 0,
     login_success |-> FALSE, disconnect |-> FALSE, key_errors |-> <<>>]

extract_signals(log) ==
    IF log = <<>>
    THEN [NoSignals EXCEPT !.key_errors = <<"Kein worker log gefunden">>]
    ELSE LET disc == \E i \in DOMAIN log : log[i].disconnect
             errs == (IF disc THEN <<"Browser/Steel Session instabil">> ELSE <<>>)
                     \o PatternHits(log, 1)
             dd == Dedupe(errs)
         IN [clicks |-> SumOver(log, "click"),
             types |-> SumOver(log, "type"),
             waits |-> SumOver(log, "wait"),
             navigates |-> SumOver(log, "navigate"),
             errors |-> SumOver(log, "err"),
             login_success |-> \E i \in DOMAIN log : log[i].login,
             disconnect |-> disc,
             key_errors |-> SubSeq(dd, 1, Min(Len(dd), MaxKeyErrors))]

\* A variant of the time stamp that keeps the seconds.
FormatNowWithSeconds(t) == t

\* datetime.utcnow().strftime("%Y-%m-%d %H:%M UTC"): the minute of the clock
FormatNow(t) == t \div TicksPerMinute

\* worker_log.splitlines()[-n:]
LastLines(log, n) ==
    [i \in 1..Min(Len(log), n) |-> log[Len(log) - Min(Len(log), n) + i].text]

\* The advice text, as its parts that vary: the header's time stamp, the
\* diagnosis lines, the key errors and the log tail. llm is "" in the template.
build_advice_no_llm(log, signals) ==
    [header |-> FormatNow(clock),
     login |-> signals.login_success,
     disconnect |-> signals.disconnect,
     actions |-> <<signals.clicks, signals.types, signals.navigates, signals.waits>>,
     key_errors |-> IF signals.key_errors # <<>> THEN signals.key_errors
                    ELSE <<"(keine spezifischen Error-Strings erkannt)">>,
     tail |-> IF log # <<>> THEN LastLines(log, TailLines) ELSE <<"(no log)">>,
     llm |-> ""]

\* The advice made of the model's response: the response itself when it names
\* both files, else "## advice.md" and the stripped response.
LlmAdvice(resp) ==
    [header |-> -1, login |-> FALSE, disconnect |-> FALSE, actions |-> <<>>,
     key_errors |-> <<>>, tail |-> <<>>, llm |-> resp]

\* llm_summarize's advice. llm is "import fails" when langchain_groq cannot be
\* imported, else the model's response; it is read only when USE_GROQ.
llm_summarize(log, signals, llm) ==
    IF ~USE_GROQ \/ llm = "import fails"
    THEN build_advice_no_llm(log, signals)
    ELSE LlmAdvice(llm)

\* One run of agent_social.main at the current time: it reads the worker log,
\* derives the signals and writes advice.md.
SocialMain(llm) ==
    /\ Len(advice_runs) < MaxSocialRuns
    /\ (~USE_GROQ) => llm = "import fails"
    /\ LET advice == llm_summarize(worker_log, extract_signals(worker_log), llm)
       IN /\ advice_md' = advice
          /\ advice_runs' = Append(advice_runs, [at |-> clock, text |-> advice])
    /\ UNCHANGED <<USE_GROQ, worker_log, clock>>
    /\ UNCHANGED coreVars

\* Time passes between the runs of the social stage.
Tick ==
    /\ clock < MaxClock
    /\ clock' = clock + 1
    /\ UNCHANGED <<USE_GROQ, worker_log, advice_md, advice_runs>>
    /\ UNCHANGED coreVars

SocialSpecInit ==
    /\ CoreInit({DefaultMaxRunRetries}, {DefaultRetryBackoffSeconds})
    /\ SocialInit(BOOLEAN, WorkerLogs)

SocialNext ==
    \/ \E llm \in LlmResponses \cup {"import fails"} : SocialMain(llm)
    \/ Tick

SocialSpec == SocialSpecInit /\ [][SocialNext]_vars

(***************************************************************************)
(* Properties                                                              *)
(***************************************************************************)
Terminal == {"success", "failed"}

\* The latest attempt started is one whose run_once returned: its stats,
\* result, summary and report email are the current ones.
AttemptReturned == attempt >= 1 /\ summary.attempt = attempt

\* The error the latest attempt ended with, by the branch it took.
ErrorOfLastAttempt ==
    CASE outcome = "noop" -> last_err.kind = "NoActions"
      [] outcome = "timeout" -> last_err.kind = "Timeout" /\ last_err.attempt = attempt
      [] outcome \in {"flake", "error"} -> last_err.kind = "Exception"
      [] OTHER -> FALSE

Blank(t) == Strip(t) = <<>>

StrictlyIncreasing(q) == \A i, j \in DOMAIN q : i < j => q[i] < q[j]

\* C1: the number of attempts started never exceeds MAX_RUN_RETRIES; when the
\* budget is used up without a success no further attempt is started, and the
\* hard failure (failure email, exit status 1) carries the error of the last
\* attempt made.
C1_AttemptBudget ==
    /\ attempt <= MAX_RUN_RETRIES
    /\ (pc = "running" => attempt >= 1)
    /\ (pc = "failed" =>
          /\ exit_status = 1
          /\ subject.kind = "Worker FAILED"
          /\ fail_mail_calls = 1
          /\ fail_body = last_err
          /\ (attempt >= 1 => ErrorOfLastAttempt)
          /\ (attempt = 0 => MAX_RUN_RETRIES = 0 /\ last_err.kind = "None"))
    /\ (attempt = MAX_RUN_RETRIES /\ pc = "retrying" => ErrorOfLastAttempt)

\* C1 witness: a budget of at least two attempts used up by no-ops, failed hard.
C1_Witness ==
    /\ pc = "failed"
    /\ attempt = MAX_RUN_RETRIES
    /\ attempt >= 2
    /\ outcome = "noop"
    /\ fail_body.kind = "NoActions"

\* C2 as stated: an attempt that returns with clicks = 0 and types = 0 is a
\* no-op whatever its result text, and is retried while attempts remain.
C2_Original ==
    (AttemptReturned /\ stats.clicks = 0 /\ stats.types = 0) =>
        /\ outcome = "noop"
        /\ pc # "success"

\* C2 amended: an attempt that returns with clicks = 0, types = 0 and a result
\* text that is empty after stripping is classified as a no-op (last_err is the
\* no-actions error, the run does not end in success), and with attempts
\* remaining the controller's next step starts attempt + 1.
C2_NoOpRetried ==
    /\ [](AttemptReturned /\ stats.clicks = 0 /\ stats.types = 0 /\ Blank(result) =>
            /\ outcome = "noop"
            /\ last_err.kind = "NoActions"
            /\ pc \in {"retrying", "failed"}
            /\ (pc = "failed" => attempt = MAX_RUN_RETRIES))
    /\ [][(pc = "retrying" /\ outcome = "noop" /\ attempt < MAX_RUN_RETRIES) =>
            (pc' = "running" /\ attempt' = attempt + 1)]_vars

\* C2 witness: a second attempt running after a no-op with a whitespace-only result.
C2_Witness ==
    /\ pc = "running"
    /\ attempt = 2
    /\ outcome = "noop"
    /\ result = <<" ">>
    /\ stats.clicks = 0 /\ stats.types = 0

\* C3 as stated: an exception that is neither a timeout nor a transient
\* disconnect is retried while attempts remain; the hard failure comes only
\* with the budget exhausted.
C3_Original ==
    (last_err.kind = "Exception" /\ ~infra_flake(last_err.msg) /\ pc = "failed") =>
        attempt = MAX_RUN_RETRIES

\* C3 amended: an exception that is neither a timeout nor a transient
\* disconnect is not retried: whether or not attempts remain, the run fails
\* hard at once, with that exception as the last error of the failure email.
C3_OtherErrorFailsAtOnce ==
    (last_err.kind = "Exception" /\ ~infra_flake(last_err.msg)) =>
        /\ pc = "failed"
        /\ outcome = "error"
        /\ exit_status = 1
        /\ fail_body = last_err
        /\ fail_mail_calls = 1

\* C3 witness: a hard failure at attempt 1 of at least 2, by another exception.
C3_Witness ==
    /\ pc = "failed"
    /\ attempt = 1
    /\ MAX_RUN_RETRIES >= 2
    /\ last_err.kind = "Exception"
    /\ ~infra_flake(last_err.msg)

\* C4 as stated: after a timeout or a transient disconnect with attempts
\* remaining the controller waits RETRY_BACKOFF_SECONDS * attempt (for a
\* positive RETRY_BACKOFF_SECONDS longer than every earlier wait of the run)
\* and then starts the next attempt; every backoff wait (of a positive length,
\* after a timeout or a transient disconnect) is followed by a new attempt.
C4_Original ==
    /\ [][(pc = "running" /\ outcome' \in {"timeout", "flake"}
            /\ attempt < MAX_RUN_RETRIES) =>
            (pc' = "retrying"
             /\ slept' = Append(slept, RETRY_BACKOFF_SECONDS * attempt))]_vars
    /\ [](RETRY_BACKOFF_SECONDS > 0 => StrictlyIncreasing(slept))
    /\ [][(pc = "retrying" /\ outcome \in {"timeout", "flake"}
            /\ RETRY_BACKOFF_SECONDS > 0) =>
            (pc' = "running" /\ attempt' = attempt + 1)]_vars

\* C5: a run that ends in hard failure has made exactly one call of send_mail
\* for the failure email and exits with status 1, whether that call returned
\* or raised; no other run makes that call or exits with status 1.
C5_FailureReported ==
    /\ (pc = "failed" =>
          /\ fail_mail_calls = 1
          /\ fail_mail \in {"sent", "raised"}
          /\ exit_status = 1)
    /\ (pc # "failed" =>
          /\ fail_mail_calls = 0
          /\ fail_mail = "none"
          /\ exit_status # 1)

\* C5 witness: a budget used up by timeouts, failed hard, with a failure email
\* whose send_mail raised.
C5_Witness ==
    /\ pc = "failed"
    /\ attempt >= 2
    /\ outcome = "timeout"
    /\ fail_mail = "raised"
    /\ exit_status = 1

\* C6 as stated: a finished run has made exactly one send_mail call.
C6_Original == pc \in Terminal => send_mail_calls = 1

\* C6 amended: every attempt whose run_once returns makes one send_mail call
\* (its report) and a hard failure makes one more: a run's calls number the
\* attempts that returned plus one if it failed, which for a finished run is
\* at least 1 and at most MAX_RUN_RETRIES + 1.
C6_MailPerReturnedAttempt ==
    /\ send_mail_calls = returned + fail_mail_calls
    /\ returned <= attempt
    /\ (pc \in Terminal =>
          /\ send_mail_calls >= 1
          /\ send_mail_calls <= MAX_RUN_RETRIES + 1
          /\ fail_mail_calls = (IF pc = "failed" THEN 1 ELSE 0))

\* C6 witness: a finished run with more than one send_mail call.
C6_Witness ==
    /\ pc = "failed"
    /\ returned = MAX_RUN_RETRIES
    /\ send_mail_calls >= 3

\* C7: the controller is always in one of pending, running, retrying, success,
\* failed; every run eventually reaches success or failed; and from either no
\* attempt is started, no backoff wait is made and the state does not change.
C7_Terminates ==
    /\ [](pc \in {"pending", "running", "retrying", "success", "failed"})
    /\ <>(pc \in Terminal)
    /\ [][(pc \in Terminal) =>
            (pc' = pc /\ attempt' = attempt /\ slept' = slept)]_vars
    /\ [][(pc' = "running") => (pc \in {"pending", "retrying"})]_vars

\* C7 witness: a run that succeeded at a later attempt, after a backoff wait.
C7_Witness ==
    /\ pc = "success"
    /\ attempt >= 2
    /\ slept # <<>>

\* C8 as stated: without the LLM, two runs of the advice stage on the same
\* worker log write the same advice, at whatever times they run.
C8_Original ==
    ~USE_GROQ =>
        \A i, j \in DOMAIN advice_runs : advice_runs[i].text = advice_runs[j].text

\* C8 amended: without the LLM, two runs of the advice stage on the same
\* worker log write advice texts that differ at most in the time stamp of the
\* header line, and the same text when they run within the same UTC minute.
C8_IdempotentUpToTimestamp ==
    ~USE_GROQ =>
        \A i, j \in DOMAIN advice_runs :
            LET a == advice_runs[i]
                b == advice_runs[j]
            IN /\ [a.text EXCEPT !.header = 0] = [b.text EXCEPT !.header = 0]
               /\ (a.at \div TicksPerMinute = b.at \div TicksPerMinute => a.text = b.text)
               /\ (a.at \div TicksPerMinute # b.at \div TicksPerMinute => a.text # b.text)

\* C8 witness: two runs at different times of one minute, on a log with lines,
\* with the same advice.
C8_Witness ==
    /\ ~USE_GROQ
    /\ worker_log # <<>>
    /\ Len(advice_runs) >= 2
    /\ advice_runs[1].at # advice_runs[2].at
    /\ advice_runs[1].text = advice_runs[2].text
    /\ advice_md = advice_runs[2].text

\* The number of steps of h for which p holds, counted without a loop.
CountSteps(h, p(_)) == Cardinality({i \in DOMAIN h : p(h[i])})

\* C9: the counters are never negative, and the stats of an attempt are the
\* counts over the steps of that attempt's history alone, whatever earlier
\* attempts recorded.
C9_TelemetryPerRun ==
    /\ stats.clicks >= 0 /\ stats.types >= 0 /\ stats.navigates >= 0
    /\ stats.waits >= 0 /\ stats.errors >= 0
    /\ stats.clicks = CountSteps(history, LAMBDA s : "click" \in s.s_low)
    /\ stats.types = CountSteps(history, LAMBDA s : "type" \in s.s_low \/ "fill" \in s.s_low)
    /\ stats.navigates = CountSteps(history, LAMBDA s : "navigate" \in s.s_low)
    /\ stats.waits = CountSteps(history, LAMBDA s : "wait" \in s.s_low)
    /\ stats.errors = CountSteps(history, LAMBDA s : s.error)
    /\ stats.login_success_claimed =
          (\E i \in DOMAIN history :
              history[i].s_low \cap {"logged in successfully", "eingeloggt", "logout"} # {})
    /\ summary.stats = stats

\* C9 witness: a second returned attempt, after a first one that returned as a
\* no-op, with one click and no error in its record.
C9_Witness ==
    /\ returned = 2
    /\ AttemptReturned
    /\ attempt = 2
    /\ Len(slept) = 1
    /\ stats.errors = 0
    /\ stats.clicks = 1

\* C10 as stated: an attempt with clicks = 0, types = 0 and errors >= 1 never
\* ends the run in success and its email has a non-success subject.
C10_Original ==
    (AttemptReturned /\ stats.clicks = 0 /\ stats.types = 0 /\ stats.errors >= 1) =>
        /\ pc # "success"
        /\ outcome # "success"
        /\ exit_status # 0

\* C10 amended: an attempt with clicks = 0, types = 0, errors >= 1 and a result
\* text that is empty after stripping is classified as a failed (no-op) attempt
\* in the summary's counters and last_err, its report email's subject shows
\* clicks=0 types=0 and the errors, and it never ends the run in success; the
\* same telemetry with a non-empty result text ends the run in success.
C10_NoActionErrorsFail ==
    (AttemptReturned /\ stats.clicks = 0 /\ stats.types = 0 /\ stats.errors >= 1) =>
        /\ summary.stats.clicks = 0 /\ summary.stats.types = 0
        /\ summary.stats.errors = stats.errors
        /\ (pc # "failed" =>
              /\ subject.kind = "Worker"
              /\ subject.clicks = 0 /\ subject.types = 0
              /\ subject.err = stats.errors)
        /\ (pc = "failed" => subject.kind = "Worker FAILED")
        /\ (Blank(result) =>
              /\ outcome = "noop"
              /\ last_err.kind = "NoActions"
              /\ pc # "success"
              /\ exit_status # 0)
        /\ (~Blank(result) =>
              /\ outcome = "success"
              /\ pc = "success"
              /\ exit_status = 0)

\* C10 witness: such an attempt with an empty result, waiting to be retried.
C10_Witness ==
    /\ AttemptReturned
    /\ stats.clicks = 0 /\ stats.types = 0 /\ stats.errors >= 1
    /\ Blank(result)
    /\ pc = "retrying"
    /\ subject.err >= 1

\* C11: a run ends in success (main returns, exit status 0) if and only if
\* the latest attempt returned from run_once with clicks > 0, or types > 0, or
\* a result text that is not empty after stripping; that attempt is the last
\* one of the run; and the outcome is the same whether or not send_mail raised
\* for its report email.
C11_SuccessIffRealRun ==
    /\ []((pc = "success") <=>
            (AttemptReturned /\ (stats.clicks > 0 \/ stats.types > 0 \/ ~Blank(result))))
    /\ []((pc = "success") <=> (exit_status = 0))
    /\ [](pc = "success" =>
            /\ outcome = "success"
            /\ returned >= 1
            /\ summary.attempt = attempt
            /\ fail_mail_calls = 0)
    /\ [](returned >= 1 /\ pc # "success" =>
            (stats.clicks = 0 /\ stats.types = 0 /\ Blank(result)))
    /\ [][(pc = "success") => (pc' = "success" /\ attempt' = attempt)]_vars

\* C11 witness: a first attempt with no click and no type but a result text,
\* whose report email raised, ending the run in success.
C11_Witness ==
    /\ pc = "success"
    /\ attempt = 1
    /\ mail_error
    /\ stats.clicks = 0 /\ stats.types = 0
    /\ ~Blank(result)
    /\ exit_status = 0

====
